---------------------------- MODULE Spec2Model ----------------------------
(***************************************************************************)
(* fixed-map: the storage generated by #[derive(Key)] for an enum          *)
(* (fixed-map-derive/src/lib.rs) and the Map facade over it (src/map.rs).  *)
(*                                                                         *)
(* A key type is a declaration: a sequence of variants, each a unit        *)
(* variant or a variant with one payload whose type is again a declared    *)
(* key type.  The generated Storage has one field per variant, in          *)
(* declaration order: Option<V> for a unit variant, the payload type's     *)
(* Storage for a payload variant.  Fields f0, f1, ... of the generated     *)
(* struct are positions 1, 2, ... of a sequence; the iterator's step keeps *)
(* the 0-based numbering of the generated match arms.                      *)
(***************************************************************************)
EXTENDS Integers, Sequences, FiniteSets, TLC

\* Values stored in the maps are 1..MaxValue.
MaxValue == 2

Values == 1..MaxValue

---------------------------------------------------------------------------
\* Option<T>: None and Some(x).

None == <<>>

Some(x) == <<x>>

Unwrap(o) == o[1]

---------------------------------------------------------------------------
\* Key type declarations (the derive input).

NoPayload == ""

UnitVariant(n) == [name |-> n, payload |-> NoPayload]

PayloadVariant(n, p) == [name |-> n, payload |-> p]

\* enum Key { One, Two, Three }
Key3Decl == <<UnitVariant("One"), UnitVariant("Two"), UnitVariant("Three")>>

\* enum Part { One, Two }
PartDecl == <<UnitVariant("One"), UnitVariant("Two")>>

\* enum Key { Simple, Composite(Part) }
KeyDecl == <<UnitVariant("Simple"), PayloadVariant("Composite", "Part")>>

\* enum Part { A, B }
PartABDecl == <<UnitVariant("A"), UnitVariant("B")>>

\* enum Key { Simple, Composite(Part) }, with Part = { A, B }
KeyABDecl == <<UnitVariant("Simple"), PayloadVariant("Composite", "PartAB")>>

\* enum Inner { X, Y }
InnerDecl == <<UnitVariant("X"), UnitVariant("Y")>>

\* enum Outer { A, B(Inner) }
OuterDecl == <<UnitVariant("A"), PayloadVariant("B", "Inner")>>

Decls ==
    [Key3 |-> Key3Decl, Part |-> PartDecl, Key |-> KeyDecl,
     PartAB |-> PartABDecl, KeyAB |-> KeyABDecl,
     Inner |-> InnerDecl, Outer |-> OuterDecl]

\* The key types a Map is instantiated with.
MapKeyTypes == {"Key3", "Key", "KeyAB", "Outer"}

Decl(T) == Decls[T]

\* N: the number of variants, i.e. of generated fields and match arms.
VariantCount(T) == Len(Decl(T))

IsUnit(variant) == variant.payload = NoPayload

IsUnitOnly(T) == \A i \in 1..VariantCount(T) : IsUnit(Decl(T)[i])

\* The field a key's variant dispatches to (the generated match on the key).
FieldOf(T, key) ==
    CHOOSE i \in 1..VariantCount(T) : Decl(T)[i].name = Head(key)

\* All values of key type T: <<variant>> or <<variant>> \o inner key.
RECURSIVE KeysOf(_)
KeysOf(T) ==
    UNION { IF IsUnit(Decl(T)[i])
            THEN {<<Decl(T)[i].name>>}
            ELSE {<<Decl(T)[i].name>> \o k : k \in KeysOf(Decl(T)[i].payload)}
          : i \in 1..VariantCount(T) }

---------------------------------------------------------------------------
\* Generated Storage<V>.

\* field_inits: Default::default() per field.
RECURSIVE StorageDefault(_)
StorageDefault(T) ==
    [i \in 1..VariantCount(T) |->
        IF IsUnit(Decl(T)[i]) THEN None ELSE StorageDefault(Decl(T)[i].payload)]

\* Unit arm of get: self.f.as_ref()
UnitGet(slot) == slot

\* Variant of UnitInsert: a filled slot keeps the value it holds.
UnitInsertKeepsOld(slot, value) ==
    [field |-> IF slot = None THEN Some(value) ELSE slot, ret |-> slot]

\* Variant of UnitInsert: the slot is assigned, its old content is dropped.
UnitInsertNoOld(slot, value) == [field |-> Some(value), ret |-> None]

\* Unit arm of insert: mem::replace(&mut self.f, Some(value))
UnitInsert(slot, value) == [field |-> Some(value), ret |-> slot]

\* Variant of UnitRemove: the slot is emptied, its old content is dropped.
UnitRemoveNoOld(slot) == [field |-> None, ret |-> None]

\* Variant of UnitRemove: the content is returned but stays in the slot.
UnitRemoveKeeps(slot) == [field |-> slot, ret |-> slot]

\* Unit arm of remove: mem::replace(&mut self.f, None)
UnitRemove(slot) == [field |-> None, ret |-> slot]

\* Variant of UnitClear: unit slots are skipped.
UnitClearKeeps(slot) == slot

\* Unit arm of clear: self.f = None
UnitClear(slot) == None

\* Variant of SetField: fields of the same type share one place.
SetFieldAlias(T, st, i, field) ==
    [j \in 1..Len(st) |->
        IF Decl(T)[j].payload = Decl(T)[i].payload THEN field ELSE st[j]]

\* &mut self.f: the place a mutating arm writes is field i of self, and no
\* other field.
SetField(T, st, i, field) == [st EXCEPT ![i] = field]

RECURSIVE StorageGet(_, _, _)
StorageGet(T, st, key) ==
    LET i == FieldOf(T, key)
    IN  IF IsUnit(Decl(T)[i])
        THEN UnitGet(st[i])
        ELSE StorageGet(Decl(T)[i].payload, st[i], Tail(key))

RECURSIVE StorageInsert(_, _, _, _)
StorageInsert(T, st, key, value) ==
    LET i == FieldOf(T, key)
        r == IF IsUnit(Decl(T)[i])
             THEN UnitInsert(st[i], value)
             ELSE LET n == StorageInsert(Decl(T)[i].payload, st[i], Tail(key), value)
                  IN  [field |-> n.storage, ret |-> n.ret]
    IN  [storage |-> SetField(T, st, i, r.field), ret |-> r.ret]

RECURSIVE StorageRemove(_, _, _)
StorageRemove(T, st, key) ==
    LET i == FieldOf(T, key)
        r == IF IsUnit(Decl(T)[i])
             THEN UnitRemove(st[i])
             ELSE LET n == StorageRemove(Decl(T)[i].payload, st[i], Tail(key))
                  IN  [field |-> n.storage, ret |-> n.ret]
    IN  [storage |-> SetField(T, st, i, r.field), ret |-> r.ret]

\* clear: one statement per field, in field order.
RECURSIVE StorageClear(_, _)

\* Variant of StorageClear: the fields of payload variants are left alone.
StorageClearUnits(T, st) ==
    [i \in 1..VariantCount(T) |->
        IF IsUnit(Decl(T)[i]) THEN UnitClear(st[i]) ELSE st[i]]

StorageClear(T, st) ==
    [i \in 1..VariantCount(T) |->
        IF IsUnit(Decl(T)[i])
        THEN UnitClear(st[i])
        ELSE StorageClear(Decl(T)[i].payload, st[i])]

---------------------------------------------------------------------------
\* Generated Iter<V>.  A raw pointer *const V is the address of the value
\* it points to: the path of field positions from the map's storage to the
\* slot.  addr is the address of the storage iter() is called on.

\* Variant of UnitIterInit: no snapshot is taken of a unit slot.
UnitIterInitEmpty(slot, slotAddr) == None

\* Unit iter_init: self.f.as_ref().map(|v| v as *const V)
UnitIterInit(slot, slotAddr) == IF slot = None THEN None ELSE Some(slotAddr)

RECURSIVE StorageIter(_, _, _)

\* Variant of StorageIter: step starts at the second arm.
StorageIterFromOne(T, st, addr) ==
    [step |-> 1,
     fields |-> [i \in 1..VariantCount(T) |->
        IF IsUnit(Decl(T)[i])
        THEN UnitIterInit(st[i], Append(addr, i))
        ELSE StorageIter(Decl(T)[i].payload, st[i], Append(addr, i))]]

\* Storage::iter
StorageIter(T, st, addr) ==
    [step |-> 0,
     fields |-> [i \in 1..VariantCount(T) |->
        IF IsUnit(Decl(T)[i])
        THEN UnitIterInit(st[i], Append(addr, i))
        ELSE StorageIter(Decl(T)[i].payload, st[i], Append(addr, i))]]

\* Variant of UnitIterNext: the snapshot is taken and dropped.
UnitIterNextDrops(name, snapshot) ==
    [taken |-> FALSE, field |-> None, item |-> None]

\* Unit arm of next: if let Some(v) = self.f.take() { return Some((K::Var, v)) }
\* taken: the arm returned; otherwise it falls through to self.step += 1.
UnitIterNext(name, snapshot) ==
    IF snapshot # None
    THEN [taken |-> TRUE, field |-> None, item |-> Some(<<<<name>>, Unwrap(snapshot)>>)]
    ELSE [taken |-> FALSE, field |-> None, item |-> None]

\* Variant of PayloadIterNext: the arm advances past the nested iterator
\* whatever it returned.
PayloadIterNextSkips(name, inner) ==
    [taken |-> FALSE, field |-> inner.it, item |-> None]

\* Payload arm of next, given the result of self.f.next():
\* if let Some((k, v)) = ... { return Some((K::Var(k), v)) }
PayloadIterNext(name, inner) ==
    IF inner.item # None
    THEN [taken |-> TRUE, field |-> inner.it,
          item |-> Some(<<<<name>> \o Unwrap(inner.item)[1], Unwrap(inner.item)[2]>>)]
    ELSE [taken |-> FALSE, field |-> inner.it, item |-> None]

RECURSIVE IterNext(_, _)

\* Variant of IterNext: the match arms are numbered from the last variant.
IterNextReversed(T, it) ==
    IF it.step >= VariantCount(T)
    THEN [it |-> it, item |-> None, passes |-> 1]
    ELSE LET i == VariantCount(T) - it.step
             r == IF IsUnit(Decl(T)[i])
                  THEN UnitIterNext(Decl(T)[i].name, it.fields[i])
                  ELSE PayloadIterNext(Decl(T)[i].name,
                                       IterNext(Decl(T)[i].payload, it.fields[i]))
             held == [it EXCEPT !.fields[i] = r.field]
         IN  IF r.taken
             THEN [it |-> held, item |-> r.item, passes |-> 1]
             ELSE [IterNext(T, [held EXCEPT !.step = @ + 1]) EXCEPT !.passes = @ + 1]

\* Variant of IterNext: the arms advance step after returning an item too.
IterNextAdvances(T, it) ==
    IF it.step >= VariantCount(T)
    THEN [it |-> it, item |-> None, passes |-> 1]
    ELSE LET i == it.step + 1
             r == IF IsUnit(Decl(T)[i])
                  THEN UnitIterNext(Decl(T)[i].name, it.fields[i])
                  ELSE PayloadIterNext(Decl(T)[i].name,
                                       IterNext(Decl(T)[i].payload, it.fields[i]))
             held == [it EXCEPT !.fields[i] = r.field]
         IN  IF r.taken
             THEN [it |-> [held EXCEPT !.step = @ + 1], item |-> r.item, passes |-> 1]
             ELSE [IterNext(T, [held EXCEPT !.step = @ + 1]) EXCEPT !.passes = @ + 1]

\* Variant of IterNext: the default arm counts the call.
IterNextCounts(T, it) ==
    IF it.step >= VariantCount(T)
    THEN [it |-> [it EXCEPT !.step = @ + 1], item |-> None, passes |-> 1]
    ELSE LET i == it.step + 1
             r == IF IsUnit(Decl(T)[i])
                  THEN UnitIterNext(Decl(T)[i].name, it.fields[i])
                  ELSE PayloadIterNext(Decl(T)[i].name,
                                       IterNext(Decl(T)[i].payload, it.fields[i]))
             held == [it EXCEPT !.fields[i] = r.field]
         IN  IF r.taken
             THEN [it |-> held, item |-> r.item, passes |-> 1]
             ELSE [IterNext(T, [held EXCEPT !.step = @ + 1]) EXCEPT !.passes = @ + 1]

\* Iterator::next: loop { match self.step { arms..., _ => return None } }
\* passes: how many times the loop body ran in this call.
IterNext(T, it) ==
    IF it.step >= VariantCount(T)
    THEN [it |-> it, item |-> None, passes |-> 1]
    ELSE LET i == it.step + 1
             r == IF IsUnit(Decl(T)[i])
                  THEN UnitIterNext(Decl(T)[i].name, it.fields[i])
                  ELSE PayloadIterNext(Decl(T)[i].name,
                                       IterNext(Decl(T)[i].payload, it.fields[i]))
             held == [it EXCEPT !.fields[i] = r.field]
         IN  IF r.taken
             THEN [it |-> held, item |-> r.item, passes |-> 1]
             ELSE [IterNext(T, [held EXCEPT !.step = @ + 1]) EXCEPT !.passes = @ + 1]

\* Generated IterMut<V>: the same fields with *mut V for *const V, and the
\* same match arms (iter_mut_next = iter_next).

\* Variant of UnitIterMutInit: no snapshot is taken of a unit slot.
UnitIterMutInitEmpty(slot, slotAddr) == None

\* Unit iter_mut_init: self.f.as_mut().map(|v| v as *mut V)
UnitIterMutInit(slot, slotAddr) == IF slot = None THEN None ELSE Some(slotAddr)

RECURSIVE StorageIterMut(_, _, _)
StorageIterMut(T, st, addr) ==
    [step |-> 0,
     fields |-> [i \in 1..VariantCount(T) |->
        IF IsUnit(Decl(T)[i])
        THEN UnitIterMutInit(st[i], Append(addr, i))
        ELSE StorageIterMut(Decl(T)[i].payload, st[i], Append(addr, i))]]

\* IterMut::next
IterMutNext(T, it) == IterNext(T, it)

\* Variant of UnitGetMut: a reference to the slot whether or not it is filled.
UnitGetMutAlways(slot, slotAddr) == Some(slotAddr)

\* Unit arm of get_mut: self.f.as_mut(); the reference is the address of the
\* value in the slot.
UnitGetMut(slot, slotAddr) == IF slot = None THEN None ELSE Some(slotAddr)

RECURSIVE StorageGetMut(_, _, _, _)
StorageGetMut(T, st, key, addr) ==
    LET i == FieldOf(T, key)
    IN  IF IsUnit(Decl(T)[i])
        THEN UnitGetMut(st[i], Append(addr, i))
        ELSE StorageGetMut(Decl(T)[i].payload, st[i], Tail(key), Append(addr, i))

\* Option<V>::clone of a unit field
UnitClone(slot) == IF slot = None THEN None ELSE Some(Unwrap(slot))

\* Variant of StorageClone: the clone gets fresh, empty fields.
StorageCloneDefault(T, st) == StorageDefault(T)

\* impl Clone for Storage: Storage { f0: self.f0.clone(), f1: self.f1.clone(), .. }
RECURSIVE StorageClone(_, _)
StorageClone(T, st) ==
    [i \in 1..VariantCount(T) |->
        IF IsUnit(Decl(T)[i])
        THEN UnitClone(st[i])
        ELSE StorageClone(Decl(T)[i].payload, st[i])]

\* Variant of UnitEq: two filled slots are equal whatever they hold.
UnitEqPresence(a, b) == (a = None) <=> (b = None)

\* Option<V>::eq of a unit field
UnitEq(a, b) ==
    \/ a = None /\ b = None
    \/ a # None /\ b # None /\ Unwrap(a) = Unwrap(b)

\* impl PartialEq for Storage:
\* if self.f0 != other.f0 { return false; } if self.f1 != other.f1 { .. } true
RECURSIVE StorageEq(_, _, _)
StorageEq(T, a, b) ==
    LET FieldEq(i) == IF IsUnit(Decl(T)[i])
                      THEN UnitEq(a[i], b[i])
                      ELSE StorageEq(Decl(T)[i].payload, a[i], b[i])
        from[n \in 0..VariantCount(T)] ==
            IF n = 0 THEN TRUE
            ELSE LET i == VariantCount(T) - n + 1
                 IN  IF ~FieldEq(i) THEN FALSE ELSE from[n - 1]
    IN  from[VariantCount(T)]

\* Variant of UnitIterClone: the clone starts without the snapshot.
UnitIterCloneEmpty(snapshot) == None

\* iter_clone of a unit field: self.f.clone() of an Option<*const V>
UnitIterClone(snapshot) == IF snapshot = None THEN None ELSE Some(Unwrap(snapshot))

\* impl Clone for Iter: Iter { step: self.step, f0: self.f0.clone(), .. }
RECURSIVE IterClone(_, _)
IterClone(T, it) ==
    [step |-> it.step,
     fields |-> [i \in 1..VariantCount(T) |->
        IF IsUnit(Decl(T)[i])
        THEN UnitIterClone(it.fields[i])
        ELSE IterClone(Decl(T)[i].payload, it.fields[i])]]

---------------------------------------------------------------------------
\* Map<K, V> facade (src/map.rs).

\* unsafe { &*v }: read the value at address ptr of the map's storage.
RECURSIVE Deref(_, _)
Deref(st, ptr) ==
    IF Len(ptr) = 1 THEN Unwrap(st[Head(ptr)]) ELSE Deref(st[Head(ptr)], Tail(ptr))

\* *x = value through a &mut V: replace the value at address ptr.
RECURSIVE WriteAt(_, _, _)
WriteAt(st, ptr, value) ==
    IF Len(ptr) = 1 THEN [st EXCEPT ![Head(ptr)] = Some(value)]
    ELSE [st EXCEPT ![Head(ptr)] = WriteAt(st[Head(ptr)], Tail(ptr), value)]

\* The address of the map's own storage.
RootAddr == <<>>

\* Map::iter
MapIterNew(T, st) == StorageIter(T, st, RootAddr)

\* map::Iter::next: self.iter.next().map(|(k, v)| (k, unsafe { &*v }))
MapIterNext(T, st, it) ==
    LET r == IterNext(T, it)
    IN  [it |-> r.it,
         item |-> IF r.item = None THEN None
                  ELSE Some(<<Unwrap(r.item)[1], Deref(st, Unwrap(r.item)[2])>>)]

\* Keys::next: self.inner.next().map(|(k, _)| k)
KeysNext(T, st, it) ==
    LET r == MapIterNext(T, st, it)
    IN  [it |-> r.it,
         item |-> IF r.item = None THEN None ELSE Some(Unwrap(r.item)[1])]

\* Variant of ValuesNext: advances the inner iterator twice per call.
ValuesNextSkips(T, st, it) ==
    LET r == MapIterNext(T, st, MapIterNext(T, st, it).it)
    IN  [it |-> r.it,
         item |-> IF r.item = None THEN None ELSE Some(Unwrap(r.item)[2])]

\* Values::next: self.inner.next().map(|(_, v)| v)
ValuesNext(T, st, it) ==
    LET r == MapIterNext(T, st, it)
    IN  [it |-> r.it,
         item |-> IF r.item = None THEN None ELSE Some(Unwrap(r.item)[2])]

\* Map::iter_mut
MapIterMutNew(T, st) == StorageIterMut(T, st, RootAddr)

\* map::IterMut::next: self.iter.next().map(|(k, v)| (k, unsafe { &mut *v }))
\* A &mut V is the address it refers to.
MapIterMutNext(T, st, it) ==
    LET r == IterMutNext(T, it)
    IN  [it |-> r.it,
         item |-> IF r.item = None THEN None
                  ELSE Some(<<Unwrap(r.item)[1], Unwrap(r.item)[2]>>)]

\* ValuesMut::next: self.inner.next().map(|(_, v)| v)
ValuesMutNext(T, st, it) ==
    LET r == MapIterMutNext(T, st, it)
    IN  [it |-> r.it,
         item |-> IF r.item = None THEN None ELSE Some(Unwrap(r.item)[2])]

\* impl Clone for map::Iter: Iter { iter: self.iter.clone(), .. }
MapIterClone(T, it) == IterClone(T, it)

\* Iterator::collect over map::Iter: call next until it returns None.
RECURSIVE CollectIter(_, _, _)
CollectIter(T, st, it) ==
    LET r == MapIterNext(T, st, it)
    IN  IF r.item = None THEN <<>>
        ELSE <<Unwrap(r.item)>> \o CollectIter(T, st, r.it)

\* Iterator::collect over Keys.
RECURSIVE CollectKeys(_, _, _)
CollectKeys(T, st, it) ==
    LET r == KeysNext(T, st, it)
    IN  IF r.item = None THEN <<>>
        ELSE <<Unwrap(r.item)>> \o CollectKeys(T, st, r.it)

\* Map::is_empty: self.iter().next().is_none()
IsEmptyOf(T, st) == MapIterNext(T, st, MapIterNew(T, st)).item = None

\* Map::len: self.iter().count()
LenOf(T, st) == Len(CollectIter(T, st, MapIterNew(T, st)))

\* What a panicking call leaves in place of a result.
Panic == "panic"

\* Variant of IndexOf: an absent key yields a default value.
IndexOfDefault(T, st, key) ==
    LET g == StorageGet(T, st, key)
    IN  IF g = None THEN [panics |-> FALSE, ret |-> 0]
        ELSE [panics |-> FALSE, ret |-> Unwrap(g)]

\* Index::index: self.get(key).expect("no entry found for key")
IndexOf(T, st, key) ==
    LET g == StorageGet(T, st, key)
    IN  IF g = None THEN [panics |-> TRUE, ret |-> Panic]
        ELSE [panics |-> FALSE, ret |-> Unwrap(g)]

---------------------------------------------------------------------------
\* State: one Map<K, V> and the calls made on it.
\*   ktype     K, fixed when the map is created
\*   storage   Map::storage
\*   pc        "running", or "panicked" once a call has panicked
\*   last      the most recent call taking &mut self, with its arguments,
\*             its result and the storage it was made on (pre)
\*   prev      the &mut self call before last
\*   lastRead  the most recent call, if it took &self and returned a result
\* One iterator over the map, from its creation to its drop:
\*   iter      its kind (the Map method that made it) and its generated
\*             Iter or IterMut
\*   yielded   what its next() calls have returned so far, one record per item
\*   calls     the number of next() calls made on it
\*   lastItem  the result of the most recent next() call
\*   iterPre   the map's storage when the iterator was made
\* A second map of the same type:
\*   other     its storage
\* One run of the derive macro:
\*   ast       the DeriveInput
\*   index     the position of the variant loop
\*   derived   "running", "generated", or the panic message
VARIABLES ktype, storage, pc, last, prev, lastRead,
          iter, yielded, calls, lastItem, iterPre,
          other,
          model,
          twin,
          ast, index, derived

mapVars == <<ktype, storage, pc, last, prev, lastRead>>

iterVars == <<iter, yielded, calls, lastItem, iterPre>>

deriveVars == <<ast, index, derived>>

vars == <<mapVars, iterVars, other, model, twin, deriveVars>>

NoKey == <<>>

\* The value argument of a call that takes none.
NoValue == None

NoCall == [op |-> "none", key |-> NoKey, value |-> NoValue, ret |-> None, pre |-> <<>>]

NoRead == [op |-> "none", key |-> NoKey, ret |-> None]

NoIterator == [kind |-> "none", it |-> <<>>]

\* No iterator has been made.
IterIdle ==
    /\ iter = NoIterator
    /\ yielded = <<>>
    /\ calls = 0
    /\ lastItem = None
    /\ iterPre = <<>>

\* The enum the map's key type was derived from, once the derive has run.
AstOf(T) ==
    [data |-> "enum",
     variants |-> [i \in 1..VariantCount(T) |->
        IF IsUnit(Decl(T)[i]) THEN [fields |-> "unit", count |-> 0]
        ELSE [fields |-> "unnamed", count |-> 1]]]

\* The derive of the map's key type has run.
DeriveDone ==
    /\ ast = AstOf(ktype)
    /\ index = VariantCount(ktype)
    /\ derived = "generated"

\* Map::new: storage is K::Storage::default().
MapNew ==
    /\ ktype \in MapKeyTypes
    /\ storage = StorageDefault(ktype)
    /\ pc = "running"
    /\ last = NoCall
    /\ prev = NoCall
    /\ lastRead = NoRead

\* A second Map::new of the same type.
OtherNew == other = StorageDefault(ktype)

\* The empty partial function from keys to values.
EmptyMap == [k \in {} |-> NoValue]

\* The reference map that corresponds to Map::new.
ModelNew == model = EmptyMap

\* No clone of the iterator exists.
NoTwin ==
    [live |-> FALSE, it |-> <<>>, base |-> 0, rest |-> <<>>, got |-> <<>>,
     calls |-> 0]

TwinIdle == twin = NoTwin

Init == MapNew /\ IterIdle /\ OtherNew /\ ModelNew /\ TwinIdle /\ DeriveDone

\* A call taking &mut self: record it, and forget the reads made before it.
Mutated(call) ==
    /\ last' = call
    /\ prev' = last
    /\ lastRead' = NoRead
    /\ UNCHANGED <<ktype, pc, iterVars, other, model, twin, deriveVars>>

\* A call taking &self.
Read(call) ==
    /\ lastRead' = call
    /\ UNCHANGED <<ktype, storage, pc, last, prev, iterVars, other, model, twin, deriveVars>>

\* Map::insert
MapInsert(key, value) ==
    /\ pc = "running"
    /\ LET r == StorageInsert(ktype, storage, key, value)
       IN  /\ storage' = r.storage
           /\ Mutated([op |-> "insert", key |-> key, value |-> value,
                       ret |-> r.ret, pre |-> storage])

\* Map::remove
MapRemove(key) ==
    /\ pc = "running"
    /\ LET r == StorageRemove(ktype, storage, key)
       IN  /\ storage' = r.storage
           /\ Mutated([op |-> "remove", key |-> key, value |-> NoValue,
                       ret |-> r.ret, pre |-> storage])

\* Map::clear
MapClear ==
    /\ pc = "running"
    /\ storage' = StorageClear(ktype, storage)
    /\ Mutated([op |-> "clear", key |-> NoKey, value |-> NoValue,
                ret |-> None, pre |-> storage])

\* Map::get
MapGet(key) ==
    /\ pc = "running"
    /\ Read([op |-> "get", key |-> key, ret |-> StorageGet(ktype, storage, key)])

\* Index::index (map[key]): panics when get(key) is None.
MapIndex(key) ==
    /\ pc = "running"
    /\ LET r == IndexOf(ktype, storage, key)
       IN  /\ lastRead' = [op |-> "index", key |-> key, ret |-> r.ret]
           /\ pc' = IF r.panics THEN "panicked" ELSE pc
    /\ UNCHANGED <<ktype, storage, last, prev, iterVars, other, model, twin, deriveVars>>

\* Map::len
MapLen ==
    /\ pc = "running"
    /\ Read([op |-> "len", key |-> NoKey, ret |-> LenOf(ktype, storage)])

\* Map::is_empty
MapIsEmpty ==
    /\ pc = "running"
    /\ Read([op |-> "is_empty", key |-> NoKey, ret |-> IsEmptyOf(ktype, storage)])

\* map.iter().collect()
MapIter ==
    /\ pc = "running"
    /\ Read([op |-> "iter", key |-> NoKey,
             ret |-> CollectIter(ktype, storage, MapIterNew(ktype, storage))])

\* map.keys().collect()
MapKeys ==
    /\ pc = "running"
    /\ Read([op |-> "keys", key |-> NoKey,
             ret |-> CollectKeys(ktype, storage, MapIterNew(ktype, storage))])

Next ==
    \/ \E key \in KeysOf(ktype), value \in Values : MapInsert(key, value)
    \/ \E key \in KeysOf(ktype) : MapRemove(key)
    \/ MapClear
    \/ \E key \in KeysOf(ktype) : MapGet(key)
    \/ \E key \in KeysOf(ktype) : MapIndex(key)
    \/ MapLen
    \/ MapIsEmpty
    \/ MapIter
    \/ MapKeys

Spec == Init /\ [][Next]_vars

---------------------------------------------------------------------------
\* Iterating: a map is filled, an iterator is made by iter, keys, values,
\* iter_mut or values_mut, next() is called on it, values are written through
\* the references a mutable iterator yielded, and the iterator is dropped.
\* The borrow of the map an iterator holds rules out insert while it lives,
\* and calls taking &self while a mutable iterator lives.

\* next() is called at most MaxCalls times on one iterator.
MaxCalls == 5

SharedKinds == {"iter", "keys", "values"}

MutKinds == {"iter_mut", "values_mut"}

\* Map::keys: Keys { inner: self.iter() }
MapKeysNew(T, st) == MapIterNew(T, st)

\* Map::values: Values { inner: self.iter() }
MapValuesNew(T, st) == MapIterNew(T, st)

\* Map::values_mut: ValuesMut { inner: self.iter_mut() }
MapValuesMutNew(T, st) == MapIterMutNew(T, st)

\* The iterator the Map method named kind returns.
NewOf(kind, T, st) ==
    CASE kind = "iter" -> MapIterNew(T, st)
      [] kind = "keys" -> MapKeysNew(T, st)
      [] kind = "values" -> MapValuesNew(T, st)
      [] kind = "iter_mut" -> MapIterMutNew(T, st)
      [] kind = "values_mut" -> MapValuesMutNew(T, st)

\* next() of the iterator type the Map method named kind returns.
NextOf(kind, T, st, it) ==
    CASE kind = "iter" -> MapIterNext(T, st, it)
      [] kind = "keys" -> KeysNext(T, st, it)
      [] kind = "values" -> ValuesNext(T, st, it)
      [] kind = "iter_mut" -> MapIterMutNext(T, st, it)
      [] kind = "values_mut" -> ValuesMutNext(T, st, it)

\* The (key, pointer) pair of the generated iterator behind a next() call.
RawNextOf(kind, T, it) ==
    IF kind \in MutKinds THEN IterMutNext(T, it).item ELSE IterNext(T, it).item

\* map.insert(key, value), its result dropped.
Populate(key, value) ==
    /\ pc = "running"
    /\ iter = NoIterator
    /\ storage' = StorageInsert(ktype, storage, key, value).storage
    /\ lastRead' = NoRead
    /\ UNCHANGED <<ktype, pc, last, prev, iterVars, other, model, twin, deriveVars>>

\* map.iter(), map.keys(), map.values(), map.iter_mut(), map.values_mut()
IterNew(kind) ==
    /\ pc = "running"
    /\ iter = NoIterator
    /\ iter' = [kind |-> kind, it |-> NewOf(kind, ktype, storage)]
    /\ yielded' = <<>>
    /\ calls' = 0
    /\ lastItem' = None
    /\ iterPre' = storage
    /\ lastRead' = NoRead
    /\ UNCHANGED <<ktype, storage, pc, last, prev, other, model, twin, deriveVars>>

\* Variant of IterNextCall: take() empties the storage slot the snapshot
\* points to as well.
IterNextCallTakesSlot ==
    /\ pc = "running"
    /\ iter # NoIterator
    /\ calls < MaxCalls
    /\ LET r == NextOf(iter.kind, ktype, storage, iter.it)
           raw == RawNextOf(iter.kind, ktype, iter.it)
       IN  /\ iter' = [iter EXCEPT !.it = r.it]
           /\ lastItem' = r.item
           /\ yielded' = IF r.item = None THEN yielded
                         ELSE Append(yielded, [key |-> Unwrap(raw)[1],
                                               ptr |-> Unwrap(raw)[2],
                                               item |-> Unwrap(r.item),
                                               written |-> None])
           /\ storage' = IF r.item = None THEN storage
                         ELSE StorageRemove(ktype, storage, Unwrap(raw)[1]).storage
    /\ calls' = calls + 1
    /\ lastRead' = NoRead
    /\ UNCHANGED <<ktype, pc, last, prev, iterPre, other, model, twin, deriveVars>>

\* next() on the iterator.
IterNextCall ==
    /\ pc = "running"
    /\ iter # NoIterator
    /\ calls < MaxCalls
    /\ LET r == NextOf(iter.kind, ktype, storage, iter.it)
           raw == RawNextOf(iter.kind, ktype, iter.it)
       IN  /\ iter' = [iter EXCEPT !.it = r.it]
           /\ lastItem' = r.item
           /\ yielded' = IF r.item = None THEN yielded
                         ELSE Append(yielded, [key |-> Unwrap(raw)[1],
                                               ptr |-> Unwrap(raw)[2],
                                               item |-> Unwrap(r.item),
                                               written |-> None])
    /\ calls' = calls + 1
    /\ lastRead' = NoRead
    /\ UNCHANGED <<ktype, storage, pc, last, prev, iterPre, other, model, twin, deriveVars>>

\* *v = value through the i-th reference a mutable iterator yielded.
WriteThrough(i, value) ==
    /\ pc = "running"
    /\ iter.kind \in MutKinds
    /\ i \in 1..Len(yielded)
    /\ storage' = WriteAt(storage, yielded[i].ptr, value)
    /\ yielded' = [yielded EXCEPT ![i].written = Some(value)]
    /\ UNCHANGED <<ktype, pc, last, prev, lastRead, iter, calls, lastItem, iterPre,
                   other, model, twin, deriveVars>>

\* The iterator is dropped, and the references it yielded with it.
IterDrop ==
    /\ pc = "running"
    /\ iter # NoIterator
    /\ iter' = NoIterator
    /\ yielded' = <<>>
    /\ calls' = 0
    /\ lastItem' = None
    /\ iterPre' = <<>>
    /\ lastRead' = NoRead
    /\ UNCHANGED <<ktype, storage, pc, last, prev, other, model, twin, deriveVars>>

\* A call taking &self is allowed unless a mutable iterator lives.
Shared == iter.kind \notin MutKinds

NextIter ==
    \/ \E key \in KeysOf(ktype), value \in Values : Populate(key, value)
    \/ \E kind \in SharedKinds \cup MutKinds : IterNew(kind)
    \/ IterNextCall
    \/ \E i \in 1..MaxCalls, value \in Values : WriteThrough(i, value)
    \/ IterDrop
    \/ \E key \in KeysOf(ktype) : Shared /\ MapGet(key)
    \/ Shared /\ MapLen
    \/ Shared /\ MapIsEmpty

SpecIter == Init /\ [][NextIter]_vars

---------------------------------------------------------------------------
\* An iterator made by iter() and a clone of it, each advanced on its own.

\* let twin = iter.clone(), at any point of the iterator's consumption.
\* rest: what the iterator would yield from here on; base: how many items it
\* has yielded so far.
IterCloneCall ==
    /\ pc = "running"
    /\ iter.kind = "iter"
    /\ ~twin.live
    /\ twin' = [live |-> TRUE, it |-> MapIterClone(ktype, iter.it),
                base |-> Len(yielded),
                rest |-> CollectIter(ktype, storage, iter.it),
                got |-> <<>>, calls |-> 0]
    /\ UNCHANGED <<mapVars, iterVars, other, model, deriveVars>>

\* next() on the clone.
TwinNextCall ==
    /\ pc = "running"
    /\ twin.live
    /\ twin.calls < MaxCalls
    /\ LET r == MapIterNext(ktype, storage, twin.it)
       IN  twin' = [twin EXCEPT !.it = r.it,
                                !.got = IF r.item = None THEN @
                                        ELSE Append(@, Unwrap(r.item)),
                                !.calls = @ + 1]
    /\ UNCHANGED <<mapVars, iterVars, other, model, deriveVars>>

NextClone ==
    \/ \E key \in KeysOf(ktype), value \in Values : Populate(key, value)
    \/ IterNew("iter")
    \/ IterNextCall
    \/ IterCloneCall
    \/ TwinNextCall

SpecClone == Init /\ [][NextClone]_vars

---------------------------------------------------------------------------
\* Mutable access to one entry: if let Some(x) = map.get_mut(key) { *x = w }.

\* What the caller does with the reference: nothing, or *x = w.
Writes == {None} \cup {Some(w) : w \in Values}

\* Map::get_mut, and the write through the reference it returned, if any.
MapGetMut(key, write) ==
    /\ pc = "running"
    /\ LET r == StorageGetMut(ktype, storage, key, RootAddr)
       IN  /\ storage' = IF r = None \/ write = None THEN storage
                         ELSE WriteAt(storage, Unwrap(r), Unwrap(write))
           /\ Mutated([op |-> "get_mut", key |-> key, value |-> write,
                       ret |-> r, pre |-> storage])

NextMut ==
    \/ \E key \in KeysOf(ktype), value \in Values : MapInsert(key, value)
    \/ \E key \in KeysOf(ktype), write \in Writes : MapGetMut(key, write)
    \/ \E key \in KeysOf(ktype) : MapGet(key)

SpecMut == Init /\ [][NextMut]_vars

---------------------------------------------------------------------------
\* Two maps of one key type: the map and a second one, which is a new map or
\* a clone of the first; either is mutated, and they are compared.

Maps == {"self", "other"}

MapOf(on) == IF on = "self" THEN storage ELSE other

\* The last call made on either map: its name and the map it was made on.
CallOn(op, on) ==
    [op |-> op, key |-> NoKey, value |-> NoValue, ret |-> None, pre |-> <<>>,
     on |-> on]

\* A call op taking &mut of the map named on, whose storage becomes st.
MutatedOn(on, st, op) ==
    /\ storage' = IF on = "self" THEN st ELSE storage
    /\ other' = IF on = "other" THEN st ELSE other
    /\ last' = CallOn(op, on)
    /\ lastRead' = NoRead
    /\ UNCHANGED <<ktype, pc, prev, iterVars, model, twin, deriveVars>>

\* Map::insert on either map
PairInsert(on, key, value) ==
    /\ pc = "running"
    /\ LET r == StorageInsert(ktype, MapOf(on), key, value)
       IN  MutatedOn(on, r.storage, "insert")

\* Map::remove on either map
PairRemove(on, key) ==
    /\ pc = "running"
    /\ LET r == StorageRemove(ktype, MapOf(on), key)
       IN  MutatedOn(on, r.storage, "remove")

\* Map::clear on either map
PairClear(on) ==
    /\ pc = "running"
    /\ MutatedOn(on, StorageClear(ktype, MapOf(on)), "clear")

\* let other = map.clone()
MapClone ==
    /\ pc = "running"
    /\ other' = StorageClone(ktype, storage)
    /\ last' = CallOn("clone", "self")
    /\ prev' = CallOn("clone", "self")
    /\ lastRead' = NoRead
    /\ UNCHANGED <<ktype, storage, pc, iterVars, model, twin, deriveVars>>

\* map == other
MapEq ==
    /\ pc = "running"
    /\ lastRead' = [op |-> "eq", key |-> NoKey, ret |-> StorageEq(ktype, storage, other)]
    /\ UNCHANGED <<ktype, storage, pc, last, prev, iterVars, other, model, twin, deriveVars>>

NextPair ==
    \/ \E on \in Maps, key \in KeysOf(ktype), value \in Values :
          PairInsert(on, key, value)
    \/ \E on \in Maps, key \in KeysOf(ktype) : PairRemove(on, key)
    \/ \E on \in Maps : PairClear(on)
    \/ MapClone
    \/ MapEq

SpecPair == Init /\ [][NextPair]_vars

---------------------------------------------------------------------------
\* The map next to a reference map: a partial function from keys to values
\* (its domain is the set of keys that hold a value), stepped by the same
\* calls.

RefGet(m, key) == IF key \in DOMAIN m THEN Some(m[key]) ELSE None

RefInsert(m, key, value) ==
    [map |-> [k \in DOMAIN m \cup {key} |-> IF k = key THEN value ELSE m[k]],
     ret |-> RefGet(m, key)]

RefRemove(m, key) ==
    [map |-> [k \in DOMAIN m \ {key} |-> m[k]],
     ret |-> RefGet(m, key)]

RefClear(m) == EmptyMap

RefLen(m) == Cardinality(DOMAIN m)

RefIsEmpty(m) == DOMAIN m = {}

RefEntries(m) == {<<k, m[k]>> : k \in DOMAIN m}

\* A call taking &mut self made on the map and on the reference map.
MutatedBoth(call, m) ==
    /\ last' = call
    /\ model' = m
    /\ lastRead' = NoRead
    /\ UNCHANGED <<ktype, pc, prev, iterVars, other, twin, deriveVars>>

\* Map::insert, on both
BothInsert(key, value) ==
    /\ pc = "running"
    /\ LET r == StorageInsert(ktype, storage, key, value)
       IN  /\ storage' = r.storage
           /\ MutatedBoth([op |-> "insert", key |-> key, value |-> value,
                           ret |-> r.ret, pre |-> storage],
                          RefInsert(model, key, value).map)

\* Map::remove, on both
BothRemove(key) ==
    /\ pc = "running"
    /\ LET r == StorageRemove(ktype, storage, key)
       IN  /\ storage' = r.storage
           /\ MutatedBoth([op |-> "remove", key |-> key, value |-> NoValue,
                           ret |-> r.ret, pre |-> storage],
                          RefRemove(model, key).map)

\* Map::clear, on both
BothClear ==
    /\ pc = "running"
    /\ storage' = StorageClear(ktype, storage)
    /\ MutatedBoth([op |-> "clear", key |-> NoKey, value |-> NoValue,
                    ret |-> None, pre |-> storage],
                   RefClear(model))

NextRef ==
    \/ \E key \in KeysOf(ktype), value \in Values : BothInsert(key, value)
    \/ \E key \in KeysOf(ktype) : BothRemove(key)
    \/ BothClear
    \/ \E key \in KeysOf(ktype) : MapGet(key)
    \/ MapLen
    \/ MapIsEmpty
    \/ MapIter

SpecRef == Init /\ [][NextRef]_vars

---------------------------------------------------------------------------
\* #[derive(Key)]: impl_storage on a parsed DeriveInput, one variant of the
\* enum at a time, and a Map of the derived key type afterwards.

MaxVariants == 3

MaxFields == 2

\* syn::Fields of a variant: Unit, Unnamed(n elements), Named(n fields).
VariantShapes ==
    {[fields |-> "unit", count |-> 0]}
       \cup {[fields |-> f, count |-> n] : f \in {"unnamed", "named"}, n \in 0..MaxFields}

RECURSIVE SeqsUpTo(_, _)
SeqsUpTo(S, n) ==
    IF n = 0 THEN {<<>>}
    ELSE SeqsUpTo(S, n - 1)
            \cup {Append(s, x) : s \in {t \in SeqsUpTo(S, n - 1) : Len(t) = n - 1}, x \in S}

\* The inputs of the derive: an enum with its variants, a struct, a union.
DeriveInputs ==
    {[data |-> "enum", variants |-> vs] : vs \in SeqsUpTo(VariantShapes, MaxVariants)}
       \cup {[data |-> d, variants |-> <<>>] : d \in {"struct", "union"}}

NotEnumPanic == "Key attribute is only supported on enums"

ManyElementsPanic == "Unnamed variants must have exactly one element"

NoElementPanic == "Expected one element"

NamedPanic == "Only unit fields are supported in fixed enums"

Panics == {NotEnumPanic, ManyElementsPanic, NoElementPanic, NamedPanic}

\* Variant of VariantOutcome: an unnamed variant is taken by its first
\* element however many it has.
VariantOutcomeFirstElement(variant) ==
    IF variant.fields = "unit" THEN "ok"
    ELSE IF variant.fields = "unnamed"
         THEN IF variant.count = 0 THEN NoElementPanic ELSE "ok"
         ELSE NamedPanic

\* match variant.fields in impl_storage_enum: what the loop body does with
\* one variant: "ok" (its field and arms are pushed) or the panic it raises.
VariantOutcome(variant) ==
    IF variant.fields = "unit" THEN "ok"
    ELSE IF variant.fields = "unnamed"
         THEN IF variant.count > 1 THEN ManyElementsPanic
              ELSE IF variant.count = 0 THEN NoElementPanic
              ELSE "ok"
         ELSE NamedPanic

\* The derive is about to run on some input; no map of the key type exists.
InitDerive ==
    /\ ast \in DeriveInputs
    /\ index = 0
    /\ derived = "parsed"
    /\ ktype = ""
    /\ storage = <<>>
    /\ other = <<>>
    /\ ModelNew
    /\ TwinIdle
    /\ pc = "running"
    /\ last = NoCall
    /\ prev = NoCall
    /\ lastRead = NoRead
    /\ IterIdle

\* impl_storage: match ast.data
ImplStorage ==
    /\ derived = "parsed"
    /\ derived' = IF ast.data = "enum" THEN "running" ELSE NotEnumPanic
    /\ UNCHANGED <<mapVars, iterVars, other, model, twin, ast, index>>

\* One turn of for (index, variant) in en.variants.iter().enumerate()
ImplStorageEnumVariant ==
    /\ derived = "running"
    /\ index < Len(ast.variants)
    /\ LET outcome == VariantOutcome(ast.variants[index + 1])
       IN  /\ derived' = IF outcome = "ok" THEN derived ELSE outcome
           /\ index' = IF outcome = "ok" THEN index + 1 ELSE index
    /\ UNCHANGED <<mapVars, iterVars, other, model, twin, ast>>

\* The loop is over: the quote! block is returned.
ImplStorageEnumQuote ==
    /\ derived = "running"
    /\ index = Len(ast.variants)
    /\ derived' = "generated"
    /\ UNCHANGED <<mapVars, iterVars, other, model, twin, ast, index>>

\* Storage::default() of the generated storage (field_inits); the element of
\* a payload variant is taken to be Part.
GeneratedDefault ==
    [i \in 1..index |->
        IF ast.variants[i].fields = "unit" THEN None ELSE StorageDefault("Part")]

\* Map::new of the derived key type: possible once the code was generated.
MapNewDerived ==
    /\ derived = "generated"
    /\ storage = <<>> /\ index > 0
    /\ storage' = GeneratedDefault
    /\ UNCHANGED <<ktype, pc, last, prev, lastRead, iterVars, other, model, twin, deriveVars>>

\* Map::insert of a value under a unit variant of the derived key type.
MapInsertDerived(i, value) ==
    /\ storage # <<>>
    /\ i \in 1..index
    /\ ast.variants[i].fields = "unit"
    /\ storage' = [storage EXCEPT ![i] = UnitInsert(storage[i], value).field]
    /\ UNCHANGED <<ktype, pc, last, prev, lastRead, iterVars, other, model, twin, deriveVars>>

NextDerive ==
    \/ ImplStorage
    \/ ImplStorageEnumVariant
    \/ ImplStorageEnumQuote
    \/ MapNewDerived
    \/ \E i \in 1..MaxVariants, value \in Values : MapInsertDerived(i, value)

SpecDerive == InitDerive /\ [][NextDerive]_vars

---------------------------------------------------------------------------
\* Properties.

\* get(key) on the map as it is now, and on the map last was called on.
GetNow(key) == StorageGet(ktype, storage, key)

GetBefore(key) == StorageGet(ktype, last.pre, key)

IsNested(key) == Len(key) > 1

\* C1 (round-trip): insert(k, v) followed by get(k) yields Some(v); insert(k, v)
\* followed by remove(k) yields Some(v), and get(k) after that remove yields
\* None; for unit and nested keys alike.
RoundTrip ==
    /\ (last.op = "insert" /\ lastRead.op = "get" /\ lastRead.key = last.key)
          => lastRead.ret = Some(last.value)
    /\ (prev.op = "insert" /\ last.op = "remove" /\ last.key = prev.key)
          => /\ last.ret = Some(prev.value)
             /\ (lastRead.op = "get" /\ lastRead.key = last.key)
                   => lastRead.ret = None

RoundTripWitness ==
    /\ prev.op = "insert" /\ last.op = "remove" /\ last.key = prev.key
    /\ IsNested(last.key)
    /\ last.ret = Some(MaxValue)
    /\ lastRead.op = "get" /\ lastRead.key = last.key

\* C2 (overwrite): insert(k, v) returns None when k holds no value and
\* Some(old) when k holds old; the second of insert(k, v1), insert(k, v2)
\* returns Some(v1) and get(k) afterwards yields Some(v2).
Overwrite ==
    /\ last.op = "insert" => last.ret = GetBefore(last.key)
    /\ (prev.op = "insert" /\ last.op = "insert" /\ last.key = prev.key)
          => /\ last.ret = Some(prev.value)
             /\ (lastRead.op = "get" /\ lastRead.key = last.key)
                   => lastRead.ret = Some(last.value)

OverwriteWitness ==
    /\ prev.op = "insert" /\ last.op = "insert" /\ last.key = prev.key
    /\ prev.value # last.value
    /\ last.ret # None
    /\ lastRead.op = "get" /\ lastRead.key = last.key

\* C3 (slot exclusivity): for a unit-only key type, insert(k1, v) leaves
\* get(k2) unchanged for every k2 # k1.
SlotExclusivity ==
    (IsUnitOnly(ktype) /\ last.op = "insert")
       => \A k2 \in KeysOf(ktype) \ {last.key} : GetNow(k2) = GetBefore(k2)

SlotExclusivityWitness ==
    /\ IsUnitOnly(ktype) /\ last.op = "insert"
    /\ \E k2 \in KeysOf(ktype) \ {last.key} :
          GetNow(k2) # None /\ GetNow(k2) # Some(last.value)

\* C4 (nested composition): for Key = {Simple, Composite(Part)}, Part = {One, Two},
\* insert and remove on one key leave get of every other key unchanged:
\* Composite(One) against Composite(Two) and Simple, and the other ways round.
NestedComposition ==
    (ktype = "Key" /\ last.op \in {"insert", "remove"})
       => \A k2 \in KeysOf("Key") \ {last.key} : GetNow(k2) = GetBefore(k2)

NestedCompositionWitness ==
    /\ ktype = "Key" /\ last.op = "remove"
    /\ last.key = <<"Composite", "One">> /\ last.ret # None
    /\ GetNow(<<"Composite", "Two">>) # None
    /\ GetNow(<<"Simple">>) # None

\* The keys of type ktype that hold a value.
StoredKeys == {k \in KeysOf(ktype) : GetNow(k) # None}

\* The position of a key in declaration order: its variant's index, followed
\* by the position of the inner key in the payload type.
RECURSIVE KeyPosition(_, _)
KeyPosition(T, key) ==
    LET i == FieldOf(T, key)
    IN  IF IsUnit(Decl(T)[i]) THEN <<i>>
        ELSE <<i>> \o KeyPosition(Decl(T)[i].payload, Tail(key))

\* Lexicographic order on positions.
RECURSIVE PositionLess(_, _)
PositionLess(a, b) ==
    IF a = <<>> THEN b # <<>>
    ELSE IF b = <<>> THEN FALSE
    ELSE IF Head(a) # Head(b) THEN Head(a) < Head(b)
    ELSE PositionLess(Tail(a), Tail(b))

\* The keys of the pairs an iteration yielded.
KeysYielded(pairs) == [i \in 1..Len(pairs) |-> pairs[i][1]]

\* The keys the last iter() or keys() yielded.
YieldedKeys ==
    IF lastRead.op = "iter" THEN KeysYielded(lastRead.ret) ELSE lastRead.ret

\* C5 (iteration order): with Outer = [A, B(Inner)], Inner = [X, Y] and A, B(X),
\* B(Y) all inserted, in whatever order, iter() and keys() yield A, B(X), B(Y);
\* for every key type the yielded keys are strictly increasing in declaration
\* order (variant index, then nested order).
IterationOrder ==
    lastRead.op \in {"iter", "keys"}
       => /\ (ktype = "Outer" /\ StoredKeys = KeysOf("Outer"))
                => YieldedKeys = << <<"A">>, <<"B", "X">>, <<"B", "Y">> >>
          /\ \A i, j \in 1..Len(YieldedKeys) :
                i < j => PositionLess(KeyPosition(ktype, YieldedKeys[i]),
                                      KeyPosition(ktype, YieldedKeys[j]))

\* Inserted in the order B(Y), B(X), A and then iterated.
IterationOrderWitness ==
    /\ ktype = "Outer" /\ lastRead.op = "iter" /\ Len(lastRead.ret) = 3
    /\ last.op = "insert" /\ last.key = <<"A">> /\ last.ret = None
    /\ prev.op = "insert" /\ prev.key = <<"B", "X">> /\ prev.ret = None
    /\ GetBefore(<<"B", "Y">>) # None

\* C6 (iteration content): a fresh iter() yields exactly one pair (k, v) for
\* every key with get(k) = Some(v) and nothing for a key with get(k) = None;
\* after insert(Simple, 1), insert(Composite(A), 2) on an empty map,
\* iter().collect() = [(Simple, 1), (Composite(A), 2)] and len() = 2.
IterationContent ==
    /\ lastRead.op = "iter"
          => /\ \A i \in 1..Len(lastRead.ret) :
                   GetNow(lastRead.ret[i][1]) = Some(lastRead.ret[i][2])
             /\ \A k \in StoredKeys :
                   Cardinality({i \in 1..Len(lastRead.ret) : lastRead.ret[i][1] = k}) = 1
    /\ ( /\ ktype = "KeyAB"
         /\ prev.op = "insert" /\ prev.pre = StorageDefault("KeyAB")
         /\ prev.key = <<"Simple">> /\ prev.value = 1
         /\ last.op = "insert" /\ last.key = <<"Composite", "A">> /\ last.value = 2 )
          => /\ lastRead.op = "iter"
                   => lastRead.ret = << <<<<"Simple">>, 1>>, <<<<"Composite", "A">>, 2>> >>
             /\ lastRead.op = "len" => lastRead.ret = 2

IterationContentWitness ==
    /\ ktype = "KeyAB"
    /\ prev.op = "insert" /\ prev.pre = StorageDefault("KeyAB")
    /\ prev.key = <<"Simple">> /\ prev.value = 1
    /\ last.op = "insert" /\ last.key = <<"Composite", "A">> /\ last.value = 2
    /\ lastRead.op = "iter" /\ Len(lastRead.ret) = 2

\* C7 (clear): after clear(), on an empty map or after any inserts into unit
\* and nested slots, get(k) = None for every key, is_empty() is true and
\* len() is 0.
ClearEmpties ==
    last.op = "clear"
       => /\ \A k \in KeysOf(ktype) : GetNow(k) = None
          /\ lastRead.op = "is_empty" => lastRead.ret = TRUE
          /\ lastRead.op = "len" => lastRead.ret = 0

ClearEmptiesWitness ==
    /\ last.op = "clear" /\ lastRead.op = "len"
    /\ \E k1, k2 \in KeysOf(ktype) :
          /\ ~IsNested(k1) /\ IsNested(k2)
          /\ GetBefore(k1) # None /\ GetBefore(k2) # None

\* C8 (len, is_empty): len() is the number of keys k with get(k) # None, and
\* is_empty() is true iff that number is 0.
LenCountsStored ==
    /\ lastRead.op = "len" => lastRead.ret = Cardinality(StoredKeys)
    /\ lastRead.op = "is_empty" => (lastRead.ret <=> Cardinality(StoredKeys) = 0)

LenCountsStoredWitness ==
    /\ lastRead.op = "len" /\ lastRead.ret = 2
    /\ last.op = "remove" /\ last.ret # None
    /\ \E k \in StoredKeys : IsNested(k)

\* C9 (absence): remove(k) on a key that holds no value returns None and
\* leaves the map as it was, in particular remove(k) right after a remove(k)
\* that returned a value; get(k) after remove(k) or clear() returns None;
\* no call but map[key] panics, and get leaves the map unchanged.
AbsenceIsNone ==
    /\ [] /\ (last.op = "remove" /\ GetBefore(last.key) = None)
                => (last.ret = None /\ storage = last.pre)
          /\ (prev.op = "remove" /\ prev.ret # None
                 /\ last.op = "remove" /\ last.key = prev.key)
                => (last.ret = None /\ storage = last.pre)
          /\ (lastRead.op = "get"
                 /\ (last.op = "clear" \/ (last.op = "remove" /\ last.key = lastRead.key)))
                => lastRead.ret = None
          /\ pc = "panicked" => lastRead.op = "index"
    /\ [][lastRead'.op = "get" => storage' = storage]_vars

AbsenceIsNoneWitness ==
    /\ prev.op = "remove" /\ prev.ret # None /\ IsNested(prev.key)
    /\ last.op = "remove" /\ last.key = prev.key
    /\ StoredKeys # {}
    /\ lastRead.op = "get" /\ lastRead.key = last.key

\* C10 (indexed access): map[key] panics exactly when key holds no value and
\* otherwise returns the value get(key) returns; it never changes the map; a
\* get(key) that returned None did not panic, on a key where map[key] does.
IndexOrPanic ==
    /\ [] /\ lastRead.op = "index"
                => /\ pc = "panicked" <=> GetNow(lastRead.key) = None
                   /\ pc = "running" => Some(lastRead.ret) = GetNow(lastRead.key)
          /\ (lastRead.op = "get" /\ lastRead.ret = None)
                => IndexOf(ktype, storage, lastRead.key).panics
    /\ [][lastRead'.op = "index" => storage' = storage]_vars

IndexOrPanicWitness ==
    /\ lastRead.op = "index" /\ pc = "panicked"
    /\ IsNested(lastRead.key)
    /\ StoredKeys # {}

---------------------------------------------------------------------------
\* Properties of iterators (SpecIter).

\* The step is a next() call on the iterator.
IsNextCall == iter # NoIterator /\ calls' = calls + 1

\* The keys of the items yielded so far.
YieldedSoFar == [i \in 1..Len(yielded) |-> yielded[i].key]

\* The number of snapshots an iterator still holds, nested ones included.
RECURSIVE Pending(_, _)
Pending(T, it) ==
    LET count[i \in 0..VariantCount(T)] ==
            IF i = 0 THEN 0
            ELSE count[i - 1] +
                 (IF IsUnit(Decl(T)[i])
                  THEN (IF it.fields[i] = None THEN 0 ELSE 1)
                  ELSE Pending(Decl(T)[i].payload, it.fields[i]))
    IN  count[VariantCount(T)]

\* C11 (exhaustion is idempotent): a next() call made with step = N returns
\* None and leaves the iterator as it was; once next() has returned None, step
\* is N, so every later call does the same; for Iter and IterMut, with nested
\* iterators.
ExhaustionIdempotent ==
    /\ [] ((iter # NoIterator /\ calls > 0 /\ lastItem = None)
              => iter.it.step = VariantCount(ktype))
    /\ [][(IsNextCall /\ iter.it.step = VariantCount(ktype))
              => (lastItem' = None /\ iter' = iter)]_vars

ExhaustionIdempotentWitness ==
    /\ iter.kind = "iter_mut" /\ iter.it.step = VariantCount(ktype)
    /\ \E i \in 1..Len(yielded) : IsNested(yielded[i].key)
    /\ lastItem = None
    /\ calls >= Len(yielded) + 2

\* What iter().collect() and keys().collect() return on storage st.
IterOf(st) == CollectIter(ktype, st, MapIterNew(ktype, st))

KeysIterOf(st) == CollectKeys(ktype, st, MapIterNew(ktype, st))

\* C12 (mutable iteration): iter_mut() and values_mut() yield the stored
\* entries in the order of iter(), each once, and all of them by the time next()
\* returns None; each reference refers to the slot of its key; a value written
\* through a yielded reference is what get(k) and iter() give for that key;
\* the set of keys holding a value stays as it was.
MutableIteration ==
    iter.kind \in MutKinds
       => /\ Len(yielded) <= Len(KeysIterOf(iterPre))
          /\ YieldedSoFar = SubSeq(KeysIterOf(iterPre), 1, Len(yielded))
          /\ (calls > 0 /\ lastItem = None) => YieldedSoFar = KeysIterOf(iterPre)
          /\ \A i \in 1..Len(yielded) :
                /\ yielded[i].ptr = KeyPosition(ktype, yielded[i].key)
                /\ yielded[i].item = IF iter.kind = "iter_mut"
                                     THEN <<yielded[i].key, yielded[i].ptr>>
                                     ELSE yielded[i].ptr
                /\ yielded[i].written # None
                      => /\ GetNow(yielded[i].key) = yielded[i].written
                         /\ \E j \in 1..Len(IterOf(storage)) :
                               IterOf(storage)[j] =
                                  <<yielded[i].key, Unwrap(yielded[i].written)>>
          /\ StoredKeys = {k \in KeysOf(ktype) : StorageGet(ktype, iterPre, k) # None}

MutableIterationWitness ==
    /\ iter.kind = "values_mut" /\ calls > 0 /\ lastItem = None
    /\ Len(yielded) = 3
    /\ \E i \in 1..Len(yielded) :
          /\ IsNested(yielded[i].key)
          /\ yielded[i].written # None
          /\ yielded[i].written # StorageGet(ktype, iterPre, yielded[i].key)

\* C16 (keys and values are projections of iter): the i-th item of keys() is
\* the key of the i-th pair of iter(), the i-th item of values() is its value,
\* and both end where iter() ends.
KeysValuesProject ==
    /\ KeysIterOf(storage) = [i \in 1..Len(IterOf(storage)) |-> IterOf(storage)[i][1]]
    /\ iter.kind \in {"keys", "values"}
          => /\ Len(yielded) <= Len(IterOf(storage))
             /\ \A i \in 1..Len(yielded) :
                   yielded[i].item = IF iter.kind = "keys"
                                     THEN IterOf(storage)[i][1]
                                     ELSE IterOf(storage)[i][2]
             /\ (calls > 0 /\ lastItem = None)
                   => Len(yielded) = Len(IterOf(storage))

KeysValuesProjectWitness ==
    /\ iter.kind = "values" /\ calls > 0 /\ lastItem = None
    /\ Len(yielded) = 3
    /\ \E i \in 1..Len(yielded) : IsNested(yielded[i].key)
    /\ \E i, j \in 1..Len(yielded) : yielded[i].item # yielded[j].item


\* Items still held by the snapshot of field i of iterator it over key type T.
FieldPending(T, it, i) ==
    IF IsUnit(Decl(T)[i])
    THEN (IF it.fields[i] = None THEN 0 ELSE 1)
    ELSE Pending(Decl(T)[i].payload, it.fields[i])

\* step lies in 0..N in it and in every nested iterator it holds.
RECURSIVE StepInRange(_, _)
StepInRange(T, it) ==
    /\ it.step \in 0..VariantCount(T)
    /\ \A i \in 1..VariantCount(T) :
          IsUnit(Decl(T)[i]) \/ StepInRange(Decl(T)[i].payload, it.fields[i])

\* step is 0 in it and in every nested iterator it holds.
RECURSIVE StepsZero(_, _)
StepsZero(T, it) ==
    /\ it.step = 0
    /\ \A i \in 1..VariantCount(T) :
          IsUnit(Decl(T)[i]) \/ StepsZero(Decl(T)[i].payload, it.fields[i])

\* No step of b, nested iterators included, is below the same step of a.
RECURSIVE StepsNotBelow(_, _, _)
StepsNotBelow(T, a, b) ==
    /\ b.step >= a.step
    /\ \A i \in 1..VariantCount(T) :
          \/ IsUnit(Decl(T)[i])
          \/ StepsNotBelow(Decl(T)[i].payload, a.fields[i], b.fields[i])

\* The key the last next() call yielded.
LastKey == yielded[Len(yielded)].key

\* C18 as stated: 0 <= step <= N, step starts at 0 and never decreases, and a
\* next() call that yields an item leaves step unchanged.
StepUnchangedByYield ==
    /\ [] (iter # NoIterator => StepInRange(ktype, iter.it))
    /\ [] ((iter # NoIterator /\ calls = 0) => StepsZero(ktype, iter.it))
    /\ [][IsNextCall => StepsNotBelow(ktype, iter.it, iter'.it)]_vars
    /\ [][(IsNextCall /\ lastItem' # None) => iter'.it.step = iter.it.step]_vars

\* C18 (iterator step invariant): in every iterator, nested ones included,
\* 0 <= step <= N; step is 0 in a new iterator and never decreases; a next()
\* call advances step by 1 for each slot it finds empty or exhausted, so a call
\* that yields an item leaves step at the index of the yielded variant (where
\* it was only if that slot held the item) and a call that returns None
\* leaves it at N.
StepInvariant ==
    /\ [] (iter # NoIterator => StepInRange(ktype, iter.it))
    /\ [] ((iter # NoIterator /\ calls = 0) => StepsZero(ktype, iter.it))
    /\ [][IsNextCall => StepsNotBelow(ktype, iter.it, iter'.it)]_vars
    /\ [][(IsNextCall /\ lastItem' # None)
             => /\ iter'.it.step = FieldOf(ktype, LastKey') - 1
                /\ FieldPending(ktype, iter.it, iter'.it.step + 1) > 0
                /\ \A i \in (iter.it.step + 1)..iter'.it.step :
                      FieldPending(ktype, iter.it, i) = 0]_vars
    /\ [][(IsNextCall /\ lastItem' = None)
             => /\ iter'.it.step = VariantCount(ktype)
                /\ \A i \in (iter.it.step + 1)..VariantCount(ktype) :
                      FieldPending(ktype, iter.it, i) = 0]_vars

StepInvariantWitness ==
    /\ iter # NoIterator /\ calls = 1 /\ lastItem # None
    /\ IsNested(LastKey)
    /\ iter.it.step = 1
    /\ iter.it.fields[2].step = 1


\* The snapshot that holds the slot of key in iterator it over key type T.
RECURSIVE SnapshotAt(_, _, _)
SnapshotAt(T, it, key) ==
    IF IsUnit(Decl(T)[FieldOf(T, key)])
    THEN it.fields[FieldOf(T, key)]
    ELSE SnapshotAt(Decl(T)[FieldOf(T, key)].payload,
                    it.fields[FieldOf(T, key)], Tail(key))

\* Every field step has moved past is drained: a unit snapshot is empty, a
\* nested iterator is exhausted; in it and in every nested iterator.
RECURSIVE PassedDrained(_, _)
PassedDrained(T, it) ==
    \A i \in 1..VariantCount(T) :
       IF IsUnit(Decl(T)[i])
       THEN i <= it.step => it.fields[i] = None
       ELSE /\ i <= it.step
               => /\ it.fields[i].step = VariantCount(Decl(T)[i].payload)
                  /\ Pending(Decl(T)[i].payload, it.fields[i]) = 0
            /\ PassedDrained(Decl(T)[i].payload, it.fields[i])

\* C19 (a snapshot is taken at most once): the snapshot of a yielded key is
\* empty from then on; the call after one that yielded a unit variant finds
\* the snapshot empty and moves step past it; no key is yielded twice by one
\* iterator; a nested iterator is exhausted before step moves past its variant.
SnapshotTakenOnce ==
    /\ [] (iter # NoIterator
              => /\ \A i \in 1..Len(yielded) :
                       SnapshotAt(ktype, iter.it, yielded[i].key) = None
                 /\ \A i, j \in 1..Len(yielded) :
                       yielded[i].key = yielded[j].key => i = j
                 /\ PassedDrained(ktype, iter.it))
    /\ [][(IsNextCall /\ lastItem # None /\ ~IsNested(LastKey))
             => /\ iter.it.step = FieldOf(ktype, LastKey) - 1
                /\ iter'.it.step > iter.it.step]_vars

SnapshotTakenOnceWitness ==
    /\ iter.kind = "iter" /\ Len(yielded) = 3 /\ calls = 4 /\ lastItem = None
    /\ IsNested(yielded[2].key) /\ IsNested(yielded[3].key)
    /\ iter.it.fields[2].step = VariantCount(Decl(ktype)[2].payload)

\* A step of a read-only operation: iter(), keys() or values() is called,
\* next() is called on the iterator they returned, or get, len or is_empty
\* is called.
ReadOnlyStep ==
    \/ iter = NoIterator /\ iter'.kind \in SharedKinds
    \/ IsNextCall /\ iter.kind \in SharedKinds
    \/ lastRead'.op \in {"get", "len", "is_empty"} /\ UNCHANGED iterVars

\* C20 (read-only operations leave the storage untouched): iter(), keys(),
\* values(), next() on their iterators, get, len and is_empty leave get(k) as
\* it was for every key k; a key whose snapshot next() has taken is still
\* stored.
ReadOnlyFrame ==
    /\ [][ReadOnlyStep
             => \A k \in KeysOf(ktype) :
                   StorageGet(ktype, storage', k) = StorageGet(ktype, storage, k)]_vars
    /\ [] (iter.kind \in SharedKinds
              => /\ storage = iterPre
                 /\ \A i \in 1..Len(yielded) :
                       /\ SnapshotAt(ktype, iter.it, yielded[i].key) = None
                       /\ GetNow(yielded[i].key) # None)

ReadOnlyFrameWitness ==
    /\ iter.kind = "iter" /\ Len(yielded) = 3 /\ lastItem = None /\ calls = 4
    /\ lastRead.op = "get" /\ IsNested(lastRead.key)
    /\ lastRead.ret # None
    /\ \E i \in 1..Len(yielded) : yielded[i].key = lastRead.key


\* C13 (get_mut mirrors get): get_mut(k) returns a reference exactly when
\* get(k) returns a value, and the reference is to the slot of k; when k holds
\* a value, writing w through it makes get(k) yield Some(w) and leaves get(k2)
\* as it was for every other key; when k holds none, get_mut(k) returns None
\* and the map is as it was.
GetMutMirrorsGet ==
    last.op = "get_mut"
       => /\ (last.ret = None) <=> (GetBefore(last.key) = None)
          /\ last.ret # None
                => /\ Unwrap(last.ret) = KeyPosition(ktype, last.key)
                   /\ Some(Deref(last.pre, Unwrap(last.ret))) = GetBefore(last.key)
                   /\ last.value # None => GetNow(last.key) = last.value
                   /\ last.value = None => GetNow(last.key) = GetBefore(last.key)
          /\ \A k2 \in KeysOf(ktype) \ {last.key} : GetNow(k2) = GetBefore(k2)
          /\ GetBefore(last.key) = None
                => /\ GetNow(last.key) = None
                   /\ storage = last.pre
          /\ (lastRead.op = "get" /\ lastRead.key = last.key /\ last.ret # None
                 /\ last.value # None)
                => lastRead.ret = last.value

GetMutMirrorsGetWitness ==
    /\ last.op = "get_mut" /\ IsNested(last.key)
    /\ last.ret # None /\ last.value # None
    /\ last.value # GetBefore(last.key)
    /\ lastRead.op = "get" /\ lastRead.key = last.key
    /\ \E k2 \in KeysOf(ktype) \ {last.key} : IsNested(k2) /\ GetNow(k2) # None
    /\ prev.op = "get_mut" /\ prev.ret = None

\* The keys on which get differs between storages a and b.
DifferingKeys(a, b) ==
    {k \in KeysOf(ktype) : StorageGet(ktype, a, k) # StorageGet(ktype, b, k)}

\* C14 (equality is element-wise): map == other is true exactly when get(k)
\* on the one equals get(k) on the other for every key k, nested keys
\* included; one differing slot makes it false.
EqualityElementWise ==
    lastRead.op = "eq"
       => (lastRead.ret <=> DifferingKeys(storage, other) = {})

EqualityElementWiseWitness ==
    /\ lastRead.op = "eq" /\ lastRead.ret = FALSE
    /\ \E k \in KeysOf(ktype) :
          /\ DifferingKeys(storage, other) = {k}
          /\ IsNested(k)
          /\ StorageGet(ktype, storage, k) # None
          /\ StorageGet(ktype, other, k) # None
    /\ Cardinality(StoredKeys) = 3

\* C15 (cloning is element-wise): right after other = map.clone(), get(k) on
\* the clone equals get(k) on the original for every key, the two compare equal
\* and the original is as it was; an insert, remove or clear on one of the two
\* maps leaves every get(k) of the other as it was.
CloneElementWise ==
    /\ [] (last.op = "clone"
              => /\ DifferingKeys(storage, other) = {}
                 /\ lastRead.op = "eq" => lastRead.ret)
    /\ [][last'.op = "clone" => DifferingKeys(storage, storage') = {}]_vars
    /\ [][(last'.op \in {"insert", "remove", "clear"} /\ last'.on = "self")
             => DifferingKeys(other, other') = {}]_vars
    /\ [][(last'.op \in {"insert", "remove", "clear"} /\ last'.on = "other")
             => DifferingKeys(storage, storage') = {}]_vars

CloneElementWiseWitness ==
    /\ prev.op = "clone" /\ last.op = "remove" /\ last.on = "other"
    /\ Cardinality(StoredKeys) = 3
    /\ \E k \in KeysOf(ktype) : IsNested(k) /\ DifferingKeys(storage, other) = {k}
    /\ lastRead.op = "eq"

\* A variant the deriver supports: a unit variant, or one payload element.
Supported(variant) ==
    \/ variant.fields = "unit"
    \/ variant.fields = "unnamed" /\ variant.count = 1

\* The input is an enum of supported variants only.
Derivable == ast.data = "enum" /\ \A i \in 1..Len(ast.variants) : Supported(ast.variants[i])

\* The generation has ended, with code or with a panic.
DeriveEnded == derived = "generated" \/ derived \in Panics

\* What holds of the generation at every point: variants passed are
\* supported ones, code is generated for a derivable input only, each panic
\* is the one of the first unsupported variant, and a map exists only of a
\* key type whose code was generated.
GenerationOutcome ==
    /\ derived = "running"
          => /\ ast.data = "enum"
             /\ \A i \in 1..index : Supported(ast.variants[i])
    /\ derived = "generated" => Derivable /\ index = Len(ast.variants)
    /\ derived \in Panics => ~Derivable
    /\ derived = NotEnumPanic <=> (derived # "parsed" /\ ast.data # "enum")
    /\ (derived \in Panics /\ ast.data = "enum")
          => LET v == ast.variants[index + 1]
             IN  /\ ~Supported(v)
                 /\ derived = ManyElementsPanic <=> (v.fields = "unnamed" /\ v.count >= 2)
                 /\ derived = NoElementPanic <=> (v.fields = "unnamed" /\ v.count = 0)
                 /\ derived = NamedPanic <=> v.fields = "named"
    /\ storage # <<>> => Derivable /\ derived = "generated"

\* C17 (generation-time rejection): the deriver generates a storage type
\* exactly for an enum whose variants are all unit variants or carry one
\* payload element; a variant with an empty payload list, with two or more
\* payload elements or with named fields, and a non-enum input, end the
\* generation with a panic; a map exists only of a key type that was accepted.
GenerationRejects ==
    /\ []GenerationOutcome
    /\ [][(derived = "running" /\ index < Len(ast.variants))
             => IF Supported(ast.variants[index + 1])
                THEN derived' = "running" /\ index' = index + 1
                ELSE derived' \in Panics /\ index' = index]_vars
    /\ [][(derived \in Panics) => (storage' = <<>> /\ derived' = derived)]_vars

GenerationRejectsWitness ==
    /\ derived = ManyElementsPanic
    /\ index = 2
    /\ ast.variants[1].fields = "unit"
    /\ ast.variants[2] = [fields |-> "unnamed", count |-> 1]
    /\ ast.variants[3] = [fields |-> "unnamed", count |-> 2]
    /\ storage = <<>>

\* A next() call on it, and on every nested iterator it holds, returns
\* within N - step + 1 passes of its loop.
RECURSIVE PassesBounded(_, _)
PassesBounded(T, it) ==
    /\ IterNext(T, it).passes <= VariantCount(T) - it.step + 1
    /\ \A i \in 1..VariantCount(T) :
          IsUnit(Decl(T)[i]) \/ PassesBounded(Decl(T)[i].payload, it.fields[i])

\* The number of entries of the map the iterator was made on.
EntriesAtStart ==
    Cardinality({k \in KeysOf(ktype) : StorageGet(ktype, iterPre, k) # None})

\* C21 (iteration is finite): every next() call, nested calls included, returns
\* within N - step + 1 passes of its loop; an iterator made on a map of m
\* entries yields an item on each of its first m calls and None on call m + 1,
\* the empty map and maps with nested entries only included.
IterationFinite ==
    /\ [] (iter # NoIterator
              => /\ PassesBounded(ktype, iter.it)
                 /\ Len(yielded) <= EntriesAtStart
                 /\ calls <= EntriesAtStart => Len(yielded) = calls
                 /\ calls > EntriesAtStart
                       => (Len(yielded) = EntriesAtStart /\ lastItem = None))
    /\ [][IsNextCall
             => /\ IterNext(ktype, iter.it).it = iter'.it
                /\ (calls < EntriesAtStart) <=> (lastItem' # None)]_vars

IterationFiniteWitness ==
    /\ iter # NoIterator
    /\ EntriesAtStart = 2
    /\ \A k \in StoredKeys : IsNested(k)
    /\ calls = 3 /\ lastItem = None
    /\ Len(yielded) = 2
    /\ iter.it.step = VariantCount(ktype)

\* The elements of a sequence.
Range(s) == {s[i] : i \in 1..Len(s)}

\* The map and the reference map answer every query alike.
AgreesWithModel ==
    /\ \A k \in KeysOf(ktype) : GetNow(k) = RefGet(model, k)
    /\ LenOf(ktype, storage) = RefLen(model)
    /\ IsEmptyOf(ktype, storage) <=> RefIsEmpty(model)
    /\ Range(IterOf(storage)) = RefEntries(model)
    /\ Len(IterOf(storage)) = RefLen(model)
    /\ lastRead.op = "get" => lastRead.ret = RefGet(model, lastRead.key)
    /\ lastRead.op = "len" => lastRead.ret = RefLen(model)
    /\ lastRead.op = "is_empty" => (lastRead.ret <=> RefIsEmpty(model))
    /\ lastRead.op = "iter"
          => /\ Range(lastRead.ret) = RefEntries(model)
             /\ Len(lastRead.ret) = RefLen(model)

\* C22 (refinement of an abstract finite map): new() corresponds to the empty
\* partial function; after any sequence of insert, remove and clear over unit
\* and nested keys, get, len, is_empty and iter give what the reference
\* partial function gives, and each insert and remove returns what the
\* reference returns.
RefinesModel ==
    /\ [] AgreesWithModel
    /\ [] (last.op = "none" => (model = EmptyMap /\ RefLen(model) = 0))
    /\ [][(lastRead'.op = "none" /\ last'.op = "insert")
             => /\ last'.ret = RefInsert(model, last'.key, last'.value).ret
                /\ model' = RefInsert(model, last'.key, last'.value).map]_vars
    /\ [][(lastRead'.op = "none" /\ last'.op = "remove")
             => /\ last'.ret = RefRemove(model, last'.key).ret
                /\ model' = RefRemove(model, last'.key).map]_vars

RefinesModelWitness ==
    /\ last.op = "remove" /\ IsNested(last.key) /\ last.ret # None
    /\ lastRead.op = "iter" /\ Len(lastRead.ret) = 2
    /\ \E k \in DOMAIN model : IsNested(k)
    /\ \E k \in DOMAIN model : ~IsNested(k)

\* st after insert(key, value).
Inserted(st, key, value) == StorageInsert(ktype, st, key, value).storage

\* st after remove(key).
Removed(st, key) == StorageRemove(ktype, st, key).storage

\* C23 (equality does not depend on history): the two maps, each reached by
\* its own sequence of insert, remove and clear, compare equal whenever they
\* hold the same mapping; insert(k, v) and then remove(k) of an absent key
\* gives a map equal to the one before; two inserts in either order give equal
\* maps; a cleared map equals new().
EqualityIgnoresHistory ==
    /\ DifferingKeys(storage, other) = {} => StorageEq(ktype, storage, other)
    /\ (lastRead.op = "eq" /\ DifferingKeys(storage, other) = {}) => lastRead.ret
    /\ \A k \in KeysOf(ktype), v \in Values :
          StorageGet(ktype, storage, k) = None
             => StorageEq(ktype, Removed(Inserted(storage, k, v), k), storage)
    /\ \A k1, k2 \in KeysOf(ktype), v1, v2 \in Values :
          k1 # k2
             => StorageEq(ktype, Inserted(Inserted(storage, k1, v1), k2, v2),
                                 Inserted(Inserted(storage, k2, v2), k1, v1))
    /\ StorageEq(ktype, StorageClear(ktype, storage), StorageDefault(ktype))
    /\ last.op = "clear"
          => StorageEq(ktype, MapOf(last.on), StorageDefault(ktype))

EqualityIgnoresHistoryWitness ==
    /\ lastRead.op = "eq" /\ lastRead.ret = TRUE
    /\ last.op = "remove" /\ last.on = "other"
    /\ prev.op = "none"
    /\ Cardinality(StoredKeys) = 2
    /\ \E k \in StoredKeys : IsNested(k)

\* s is an initial part of t.
IsPrefix(s, t) == Len(s) <= Len(t) /\ s = SubSeq(t, 1, Len(s))

\* The pairs the iterator has yielded since it was cloned.
YieldedSinceClone ==
    [i \in 1..(Len(yielded) - twin.base) |-> yielded[twin.base + i].item]

\* C24 (cloning an iterator): the clone of an Iter has the step, the snapshots
\* and the nested iterators of the original at the point of the clone; the
\* clone yields the pairs the original was going to yield from that point, in
\* the same order, and so does the original, however the calls on the two are
\* interleaved; a call on one leaves the other as it is.
IterCloneSame ==
    /\ [] (twin.live
              => /\ IsPrefix(twin.got, twin.rest)
                 /\ IsPrefix(YieldedSinceClone, twin.rest)
                 /\ twin.calls > Len(twin.got) => twin.got = twin.rest
                 /\ calls > Len(yielded) => YieldedSinceClone = twin.rest
                 /\ CollectIter(ktype, storage, twin.it)
                       = SubSeq(twin.rest, Len(twin.got) + 1, Len(twin.rest))
                 /\ CollectIter(ktype, storage, iter.it)
                       = SubSeq(twin.rest, Len(YieldedSinceClone) + 1, Len(twin.rest)))
    /\ [][(twin'.live /\ ~twin.live)
             => (twin'.it = iter.it /\ iter' = iter /\ storage' = storage)]_vars
    /\ [][(twin.live /\ twin'.calls = twin.calls + 1)
             => (iter' = iter /\ yielded' = yielded /\ storage' = storage)]_vars
    /\ [][(twin.live /\ IsNextCall) => twin' = twin]_vars

IterCloneSameWitness ==
    /\ twin.live /\ twin.base = 1
    /\ Len(twin.rest) = 2
    /\ twin.got = twin.rest /\ twin.calls = 3
    /\ Len(yielded) = 2
    /\ IsNested(yielded[2].key)
    /\ iter.it # twin.it

====
